---- MODULE Spec2Model ----
(***************************************************************************)
(* Model of the AI Boardroom discussion orchestration engine               *)
(* (backend/app/debate.py), its persistence gateway                        *)
(* (backend/app/database.py) and the resilient completion client           *)
(* (backend/app/openrouter.py).                                            *)
(*                                                                         *)
(* Ten specifications share the module:                                   *)
(*   Spec        one DiscussionManager, calls made one at a time           *)
(*   SpecScenario the run of test_discussion                              *)
(*   SpecTurn    the phase/turn state machine of _advance_turn in isolation*)
(*   SpecEquiv   three DiscussionManagers driven in lockstep               *)
(*   SpecClient  one OpenRouterClient.chat_completion call at a time       *)
(*   SpecRate    tasks going through one client's _rate_limit              *)
(*   SpecLife    one DiscussionManager with start, advance, get and delete *)
(*   SpecOverlap one DiscussionManager whose advance calls overlap         *)
(*   SpecOverlapDelete  SpecOverlap with delete_discussion and the clock   *)
(*   SpecClientFair  SpecClient with requests and sleeps that end          *)
(***************************************************************************)
EXTENDS Integers, Sequences, FiniteSets, Bags, TLC

VARIABLES
    mgr,        \* the DiscussionManager: use_database, discussions, database tables
    clock,      \* int(time.time())
    obs,        \* per discussion id: the number of message results advance returned
    calls,      \* SpecScenario: advance calls made so far
    last,       \* the last orchestrator call: its environment outcomes and its result
    tdisc,      \* SpecTurn: the discussion driven through _advance_turn
    twins,      \* SpecEquiv: the three managers
    twinLast,   \* SpecEquiv: the result each manager returned for the last call
    cc,         \* SpecClient: the chat_completion call in progress
    reqs,       \* SpecClient: number of requests sent to each model during the call
    rl,         \* SpecRate: the client's rate limiter and the tasks going through it
    life,       \* SpecLife: what start and delete have returned so far
    ov          \* SpecOverlap: the advance calls suspended in their completion request

vars == <<mgr, clock, obs, calls, last, tdisc, twins, twinLast, cc, reqs, rl, life, ov>>

orchVars   == <<mgr, clock, obs, calls, last>>
turnVars   == <<tdisc>>
twinVars   == <<twins, twinLast>>
clientVars == <<cc, reqs>>
rateVars   == <<rl>>
lifeVars   == <<life>>
overlapVars == <<ov>>

----------------------------------------------------------------------------
(* Bounds *)

MaxDiscussions == 1     \* start calls per manager
MaxTurns       == 9     \* message results per discussion
MaxCalls       == 8     \* SpecScenario: advance calls made (max_turns of test_discussion)
MaxClock       == 1     \* clock seconds that pass
MaxLimit       == 3     \* SpecTurn: largest phase limit drawn
ExtraTurns     == 2     \* SpecTurn: turns applied beyond a+b+c
MaxTwinTurns   == 4     \* SpecEquiv: messages per discussion
TicksPerSecond == 2     \* SpecRate: clock ticks in one second
MaxTime        == 6     \* SpecRate: clock ticks that pass
NumTasks       == 2     \* SpecRate: tasks sharing the client
MaxLive        == 2     \* SpecLife: discussions resident at a time
MaxStarts      == 3     \* SpecLife: start calls made
MaxLifeTurns   == 1     \* SpecLife: messages per discussion
MaxInFlight    == 2     \* SpecOverlap: advance calls suspended at one time
MaxOvStarts    == 2     \* SpecOverlap: start calls made

----------------------------------------------------------------------------
(* debate.py: DiscussionPhase *)

OPENING   == "OPENING"
DEBATE    == "DEBATE"
SYNTHESIS == "SYNTHESIS"

DiscussionPhase == {OPENING, DEBATE, SYNTHESIS}

\* DiscussionPhase.<member>.value
PhaseValue(p) ==
    CASE p = OPENING   -> "opening"
      [] p = DEBATE    -> "debate"
      [] p = SYNTHESIS -> "synthesis"

PhaseTags == {"opening", "debate", "synthesis"}

\* DiscussionPhase(tag)
PhaseOfTag(s) ==
    CASE s = "opening"   -> OPENING
      [] s = "debate"    -> DEBATE
      [] s = "synthesis" -> SYNTHESIS

\* The limits start_discussion hard-codes.
DefaultPhaseLimits ==
    [p \in DiscussionPhase |->
        CASE p = OPENING -> 2 [] p = DEBATE -> 4 [] p = SYNTHESIS -> 2]

----------------------------------------------------------------------------
(* Texts.  A text is the set of lower-case words it is made of; a keyword  *)
(* occurs in a text when it is a substring of one of its words.            *)

\* kw is a substring of word (over the words used in this model)
SubstringOf(kw, word) ==
    \/ kw = word
    \/ <<kw, word>> \in { <<"market", "marketing">>,
                          <<"tech", "technology">>,
                          <<"tech", "technical">>,
                          <<"market", "market research">>,
                          <<"system", "systems">> }

Occurs(kw, text) == \E w \in text : SubstringOf(kw, w)

AnyOccurs(kws, text) == \E kw \in kws : Occurs(kw, text)

\* str(n) and int(s)
StrOf(n) == <<"str", n>>
IntOf(s) == s[2]

\* json.dumps(v) and json.loads(s)
JsonDumps(v) == <<"json", v>>
JsonLoads(s) == s[2]

----------------------------------------------------------------------------
(* personas.py *)

\* @dataclass without frozen=True/unsafe_hash=True sets __hash__ to None
PersonaHashable == FALSE

CEO == [name |-> "Alexandra Stone", model |-> "openai/gpt-4", role |-> "CEO",
        expertise |-> {"business", "strategy", "leadership", "market", "analysis",
                       "financial", "oversight", "stakeholder", "management"}]

CTO == [name |-> "Marcus Chen", model |-> "anthropic/claude-3-sonnet", role |-> "CTO",
        expertise |-> {"software", "architecture", "technology", "trends", "system",
                       "scalability", "cybersecurity", "technical", "team", "management"}]

CMO == [name |-> "Sofia Rodriguez", model |-> "google/gemini-pro", role |-> "CMO",
        expertise |-> {"marketing", "strategy", "brand", "management", "customer",
                       "acquisition", "digital", "market", "research"}]

CreateDefaultPersonas == <<CEO, CTO, CMO>>

GetAllPersonas == CreateDefaultPersonas

\* what a caller passes as start_discussion's personas argument
NoneArg == <<"None">>

PersonaArgs == {NoneArg, <<CEO, CTO, CMO>>, <<CTO, CMO>>, <<CMO, CEO>>}

Topics == {"Should we hire more developers?"}

\* contents a completion can come back with
Contents == { {"hello"}, {"marketing", "budget"} }

----------------------------------------------------------------------------
(* database.py: DatabaseManager.  db = [discussions, messages]: the two    *)
(* tables; io is "ok" or "error" (sqlite3.Error raised at connect).        *)

IoOutcomes == {"ok", "error"}

EmptyFun == [x \in {} |-> x]

EmptyDb == [discussions |-> EmptyFun, messages |-> <<>>]

\* json.dumps accepts a dict whose keys are str/int/float/bool/None only
JsonKeysOk(f) == \A k \in DOMAIN f : k \notin DiscussionPhase

\* current_phase.value if hasattr(current_phase, 'value') else str(current_phase)
PhaseToStr(p) == IF p \in DiscussionPhase THEN PhaseValue(p) ELSE p

PersonaToDict(p) == p

\* save_discussion: ret is "True", "False" or "raise"
SaveDiscussion(db, data, io) ==
    IF io = "error"
    THEN \* the handler's log line reads discussion_id before it is bound
         [db |-> db, ret |-> "raise"]
    ELSE IF ~JsonKeysOk(data.phase_limits)
    THEN \* json.dumps raises TypeError, which is not a sqlite3.Error
         [db |-> db, ret |-> "raise"]
    ELSE LET row == [topic        |-> data.topic,
                     current_turn |-> data.current_turn,
                     current_phase|-> PhaseToStr(data.current_phase),
                     phase_turns  |-> data.phase_turns,
                     phase_limits |-> JsonDumps(data.phase_limits),
                     turn_order   |-> JsonDumps(data.turn_order),
                     personas     |-> JsonDumps([i \in DOMAIN data.personas |->
                                                    PersonaToDict(data.personas[i])])]
         IN  [db |-> [db EXCEPT !.discussions = (data.id :> row) @@ db.discussions],
              ret |-> "True"]

\* save_message: ret is "True" or "False"
SaveMessage(db, discussion_id, message_data, io) ==
    IF io = "error"
    THEN [db |-> db, ret |-> "False"]
    ELSE [db |-> [db EXCEPT !.messages = Append(@,
                     [discussion_id |-> discussion_id,
                      persona       |-> message_data.persona,
                      role          |-> message_data.role,
                      content       |-> message_data.content,
                      phase         |-> message_data.phase,
                      turn_number   |-> IntOf(message_data.turn)])],
          ret |-> "True"]

\* the rows of a sequence that satisfy Keep, in order
RECURSIVE SelectRows(_, _)
SelectRows(rows, id) ==
    IF rows = <<>> THEN <<>>
    ELSE IF Head(rows).discussion_id = id
         THEN <<Head(rows)>> \o SelectRows(Tail(rows), id)
         ELSE SelectRows(Tail(rows), id)

\* insert r into a sequence sorted by turn_number, after its equals
RECURSIVE InsertByTurn(_, _)
InsertByTurn(r, sorted) ==
    IF sorted = <<>> THEN <<r>>
    ELSE IF Head(sorted).turn_number <= r.turn_number
         THEN <<Head(sorted)>> \o InsertByTurn(r, Tail(sorted))
         ELSE <<r>> \o sorted

\* ORDER BY turn_number
RECURSIVE OrderByTurn(_)
OrderByTurn(rows) ==
    IF rows = <<>> THEN <<>>
    ELSE InsertByTurn(rows[Len(rows)], OrderByTurn(SubSeq(rows, 1, Len(rows) - 1)))

\* load_discussion: found = FALSE is None
LoadDiscussion(db, discussion_id, io) ==
    IF io = "error" \/ discussion_id \notin DOMAIN db.discussions
    THEN [found |-> FALSE]
    ELSE LET row  == db.discussions[discussion_id]
             msgs == OrderByTurn(SelectRows(db.messages, discussion_id))
         IN  [found         |-> TRUE,
              id            |-> discussion_id,
              topic         |-> row.topic,
              current_turn  |-> row.current_turn,
              current_phase |-> row.current_phase,
              phase_turns   |-> row.phase_turns,
              phase_limits  |-> JsonLoads(row.phase_limits),
              turn_order    |-> JsonLoads(row.turn_order),
              personas_data |-> JsonLoads(row.personas),
              messages      |-> [i \in DOMAIN msgs |->
                                   [persona |-> msgs[i].persona,
                                    role    |-> msgs[i].role,
                                    content |-> msgs[i].content,
                                    phase   |-> msgs[i].phase,
                                    turn    |-> msgs[i].turn_number]]]

\* the rows of a sequence that belong to another discussion, in order
RECURSIVE RejectRows(_, _)
RejectRows(rows, id) ==
    IF rows = <<>> THEN <<>>
    ELSE IF Head(rows).discussion_id = id
         THEN RejectRows(Tail(rows), id)
         ELSE <<Head(rows)>> \o RejectRows(Tail(rows), id)

\* delete_discussion: ret is cursor.rowcount > 0 of the DELETE on discussions;
\* a sqlite3.Error rolls the transaction back and returns False
DbDeleteDiscussion(db, discussion_id, io) ==
    IF io = "error"
    THEN [db |-> db, ret |-> FALSE]
    ELSE [db  |-> [discussions |-> [id \in DOMAIN db.discussions \ {discussion_id} |->
                                       db.discussions[id]],
                   messages    |-> RejectRows(db.messages, discussion_id)],
          ret |-> discussion_id \in DOMAIN db.discussions]

----------------------------------------------------------------------------
(* debate.py: DiscussionManager.  A manager m is                          *)
(* [use_database, discussions, db]; every operation returns the manager   *)
(* it leaves behind and the result the caller sees.                       *)

NoResult == [kind |-> "none", id |-> <<>>, persona |-> "", role |-> "",
             content |-> {}, turn |-> 0, phase |-> "", exc |-> "",
             messages |-> <<>>]

IdResult(id)     == [NoResult EXCEPT !.kind = "id", !.id = id]
RaiseResult(exc) == [NoResult EXCEPT !.kind = "raise", !.exc = exc]

\* __init__: use_database is the argument, or False when DatabaseManager() raised
NewManager(use_database) ==
    [use_database |-> use_database, discussions |-> EmptyFun, db |-> EmptyDb]

\* f"discussion_{int(time.time())}_{len(self.discussions) + 1}"
DiscussionId(m, now) == <<now, Cardinality(DOMAIN m.discussions) + 1>>

\* the id no start ever returns
UnknownId == <<0, 0>>

\* a start that keeps the discussion in memory only when it could not be stored
StartDiscussion_DbFirst(m, topic, personasArg, now, io) ==
    LET personas == IF personasArg = NoneArg THEN GetAllPersonas ELSE personasArg
        discussion_id == DiscussionId(m, now)
        discussion_data ==
            [id            |-> discussion_id,
             topic         |-> topic,
             personas      |-> personas,
             messages      |-> <<>>,
             current_turn  |-> 0,
             current_phase |-> OPENING,
             phase_turns   |-> 0,
             phase_limits  |-> DefaultPhaseLimits,
             turn_order    |-> [i \in DOMAIN personas |-> personas[i].role]]
    IN  [m      |-> IF m.use_database
                    THEN [m EXCEPT !.db = SaveDiscussion(m.db, discussion_data, io).db]
                    ELSE [m EXCEPT !.discussions = (discussion_id :> discussion_data) @@ @],
         result |-> IdResult(discussion_id)]

\* a start that takes the turn order from the registry whatever personas it got
StartDiscussion_RegistryOrder(m, topic, personasArg, now, io) ==
    LET personas == IF personasArg = NoneArg THEN GetAllPersonas ELSE personasArg
        discussion_id == DiscussionId(m, now)
        discussion_data ==
            [id            |-> discussion_id,
             topic         |-> topic,
             personas      |-> personas,
             messages      |-> <<>>,
             current_turn  |-> 0,
             current_phase |-> OPENING,
             phase_turns   |-> 0,
             phase_limits  |-> DefaultPhaseLimits,
             turn_order    |-> [i \in DOMAIN GetAllPersonas |-> GetAllPersonas[i].role]]
    IN  [m      |-> [m EXCEPT !.discussions = (discussion_id :> discussion_data) @@ @,
                              !.db = IF m.use_database
                                     THEN SaveDiscussion(m.db, discussion_data, io).db
                                     ELSE m.db],
         result |-> IdResult(discussion_id)]

StartDiscussion(m, topic, personasArg, now, io) ==
    LET personas == IF personasArg = NoneArg THEN GetAllPersonas ELSE personasArg
        discussion_id == DiscussionId(m, now)
        discussion_data ==
            [id            |-> discussion_id,
             topic         |-> topic,
             personas      |-> personas,
             messages      |-> <<>>,
             current_turn  |-> 0,
             current_phase |-> OPENING,
             phase_turns   |-> 0,
             phase_limits  |-> DefaultPhaseLimits,
             turn_order    |-> [i \in DOMAIN personas |-> personas[i].role]]
        stored == (discussion_id :> discussion_data) @@ m.discussions
        \* whatever save_discussion returns or raises is logged and dropped
        db1 == IF m.use_database
               THEN SaveDiscussion(m.db, discussion_data, io).db
               ELSE m.db
    IN  [m      |-> [m EXCEPT !.discussions = stored, !.db = db1],
         result |-> IdResult(discussion_id)]

KeywordMappings ==
    [technology |-> {"tech", "development", "developers", "software", "system",
                     "architecture", "code", "programming", "infrastructure",
                     "security", "scalability", "technical"},
     business   |-> {"strategy", "revenue", "profit", "market", "competition",
                     "growth", "financial", "budget", "investment", "roi",
                     "business", "vision"},
     marketing  |-> {"customer", "brand", "marketing", "sales", "acquisition",
                     "retention", "campaign", "audience", "engagement",
                     "market research", "advertising"}]

AnalyzeMessageKeywords(content) ==
    {category \in DOMAIN KeywordMappings : AnyOccurs(KeywordMappings[category], content)}

\* the first element of a non-empty set of indices
MinOf(S) == CHOOSE i \in S : \A j \in S : i <= j

\* the score line 126-144 gives one persona
PersonaScore(d, persona) ==
    LET messages == d.messages
        keywords == AnalyzeMessageKeywords(messages[Len(messages)].content)
        lastTwo  == {i \in DOMAIN messages : i > Len(messages) - 2}
        recent   == \E i \in lastTwo : messages[i].persona = persona.name
    IN  (IF recent THEN -10 ELSE 0)
      + (IF "technology" \in keywords
            /\ AnyOccurs({"software", "technology", "technical", "system", "architecture"},
                         persona.expertise)
         THEN 5 ELSE 0)
      + (IF "business" \in keywords
            /\ AnyOccurs({"strategy", "business", "financial", "leadership", "market"},
                         persona.expertise)
         THEN 5 ELSE 0)
      + (IF "marketing" \in keywords
            /\ AnyOccurs({"marketing", "brand", "customer", "acquisition"},
                         persona.expertise)
         THEN 5 ELSE 0)

Selected(persona) == [raised |-> FALSE, exc |-> "", persona |-> persona]
SelectRaised(exc, personas) == [raised |-> TRUE, exc |-> exc, persona |-> personas[1]]

SelectNextPersonaByExpertise(d) ==
    LET personas == d.personas
        ceos     == {i \in DOMAIN personas : personas[i].role = "CEO"}
    IN  IF d.messages = <<>>
        THEN Selected(IF ceos # {} THEN personas[MinOf(ceos)] ELSE personas[1])
        ELSE IF ~PersonaHashable
        THEN \* persona_scores[persona] = score needs hash(persona)
             SelectRaised("TypeError", personas)
        ELSE LET best == {i \in DOMAIN personas :
                            \A j \in DOMAIN personas :
                               PersonaScore(d, personas[j]) <= PersonaScore(d, personas[i])}
             IN  Selected(personas[MinOf(best)])

\* a round robin indexed by the per-phase counter
GetCurrentPersona_PhaseTurns(d) ==
    IF d.current_phase = DEBATE
    THEN SelectNextPersonaByExpertise(d)
    ELSE LET turn_order   == d.turn_order
             personas     == d.personas
             current_role == turn_order[(d.phase_turns % Len(turn_order)) + 1]
             matching     == {i \in DOMAIN personas : personas[i].role = current_role}
         IN  Selected(IF matching # {} THEN personas[MinOf(matching)] ELSE personas[1])

GetCurrentPersona(d) ==
    IF d.current_phase = DEBATE
    THEN SelectNextPersonaByExpertise(d)
    ELSE LET turn_order   == d.turn_order
             personas     == d.personas
             current_role == turn_order[(d.current_turn % Len(turn_order)) + 1]
             matching     == {i \in DOMAIN personas : personas[i].role = current_role}
         IN  Selected(IF matching # {} THEN personas[MinOf(matching)] ELSE personas[1])

\* a phase order that starts over after the last phase
NextPhase_Wrap(p) ==
    CASE p = OPENING   -> DEBATE
      [] p = DEBATE    -> SYNTHESIS
      [] p = SYNTHESIS -> OPENING

NextPhase(p) ==
    CASE p = OPENING   -> DEBATE
      [] p = DEBATE    -> SYNTHESIS
      [] p = SYNTHESIS -> SYNTHESIS

\* _advance_turn reads phase_limits[current_phase]: KeyError when it is missing
AdvanceTurnRaises(d) == d.current_phase \notin DOMAIN d.phase_limits

\* the two increments made before the limit is read
\* an increment that leaves the discussion-wide counter alone
CountTurn_PhaseOnly(d) ==
    [d EXCEPT !.phase_turns = @ + 1]

CountTurn(d) ==
    [d EXCEPT !.current_turn = @ + 1, !.phase_turns = @ + 1]

\* a turn advance that forgets the discussion-wide counter
AdvanceTurn_NoTurnCount(d) ==
    LET d1          == [d EXCEPT !.phase_turns = @ + 1]
        phase_limit == d1.phase_limits[d1.current_phase]
    IN  IF d1.phase_turns >= phase_limit
        THEN [d1 EXCEPT !.current_phase = NextPhase(@), !.phase_turns = 0]
        ELSE d1

\* a turn advance that resets the phase counter only when the phase changes
AdvanceTurn_ResetOnChange(d) ==
    LET d1          == CountTurn(d)
        phase_limit == d1.phase_limits[d1.current_phase]
    IN  IF d1.phase_turns >= phase_limit /\ NextPhase(d1.current_phase) # d1.current_phase
        THEN [d1 EXCEPT !.current_phase = NextPhase(@), !.phase_turns = 0]
        ELSE d1

AdvanceTurn(d) ==
    LET d1          == CountTurn(d)
        phase_limit == d1.phase_limits[d1.current_phase]
    IN  IF d1.phase_turns >= phase_limit
        THEN [d1 EXCEPT !.current_phase = NextPhase(@), !.phase_turns = 0]
        ELSE d1

\* the role tags of the context: system, the history, the closing user prompt
BuildContextMessages(d, current_persona) ==
    <<"system">>
    \o [i \in DOMAIN d.messages |->
            IF d.messages[i].persona # current_persona.name THEN "assistant" ELSE "user"]
    \o <<"user">>

MessageResult(persona, content, turn, phase) ==
    [NoResult EXCEPT !.kind = "message", !.persona = persona.name,
                     !.role = persona.role, !.content = content,
                     !.turn = turn, !.phase = phase]

ErrorResult(persona, exc) ==
    [NoResult EXCEPT !.kind = "error", !.persona = persona.name,
                     !.role = persona.role, !.exc = exc]

\* a success path that gives up when the message row could not be written
OnSuccess_NeedsSave(m, discussion_id, current_persona, content, ioMsg, ioDisc) ==
    LET d0 == m.discussions[discussion_id]
        d1 == [d0 EXCEPT !.messages = Append(@,
                  [persona   |-> current_persona.name,
                   role      |-> current_persona.role,
                   content   |-> content,
                   timestamp |-> StrOf(Len(d0.messages) + 1),
                   phase     |-> PhaseValue(d0.current_phase)])]
    IN  IF m.use_database /\ ioMsg = "error"
        THEN [m |-> m, result |-> ErrorResult(current_persona, "PersistenceFailed")]
        ELSE [m      |-> [m EXCEPT !.discussions[discussion_id] = AdvanceTurn(d1)],
              result |-> MessageResult(current_persona, content, Len(d1.messages),
                                       PhaseValue(d0.current_phase))]

\* a success path that puts the new message in front of the history
OnSuccess_Prepends(m, discussion_id, current_persona, content, ioMsg, ioDisc) ==
    LET d0            == m.discussions[discussion_id]
        current_phase == d0.current_phase
        message       == [persona   |-> current_persona.name,
                          role      |-> current_persona.role,
                          content   |-> content,
                          timestamp |-> StrOf(Len(d0.messages) + 1),
                          phase     |-> PhaseValue(current_phase)]
        d1            == [d0 EXCEPT !.messages = <<message>> \o @]
        message_data  == [persona |-> message.persona, role |-> message.role,
                          content |-> message.content, phase |-> message.phase,
                          turn    |-> message.timestamp]
        db1           == IF m.use_database
                         THEN SaveMessage(m.db, discussion_id, message_data, ioMsg).db
                         ELSE m.db
    IN  IF AdvanceTurnRaises(d1)
        THEN \* KeyError lands in the outer handler after the append and the increments
             [m      |-> [m EXCEPT !.discussions[discussion_id] = CountTurn(d1), !.db = db1],
              result |-> ErrorResult(current_persona, "KeyError")]
        ELSE LET d2  == AdvanceTurn(d1)
                 db2 == IF m.use_database
                        THEN SaveDiscussion(db1, d2, ioDisc).db
                        ELSE db1
             IN  [m      |-> [m EXCEPT !.discussions[discussion_id] = d2, !.db = db2],
                  result |-> MessageResult(current_persona, content,
                                           Len(d2.messages), PhaseValue(current_phase))]

\* lines 274-321: the completion returned content
OnSuccess(m, discussion_id, current_persona, content, ioMsg, ioDisc) ==
    LET d0            == m.discussions[discussion_id]
        current_phase == d0.current_phase
        message       == [persona   |-> current_persona.name,
                          role      |-> current_persona.role,
                          content   |-> content,
                          timestamp |-> StrOf(Len(d0.messages) + 1),
                          phase     |-> PhaseValue(current_phase)]
        d1            == [d0 EXCEPT !.messages = Append(@, message)]
        message_data  == [persona |-> message.persona, role |-> message.role,
                          content |-> message.content, phase |-> message.phase,
                          turn    |-> message.timestamp]
        db1           == IF m.use_database
                         THEN SaveMessage(m.db, discussion_id, message_data, ioMsg).db
                         ELSE m.db
    IN  IF AdvanceTurnRaises(d1)
        THEN \* KeyError lands in the outer handler after the append and the increments
             [m      |-> [m EXCEPT !.discussions[discussion_id] = CountTurn(d1), !.db = db1],
              result |-> ErrorResult(current_persona, "KeyError")]
        ELSE LET d2  == AdvanceTurn(d1)
                 db2 == IF m.use_database
                        THEN SaveDiscussion(db1, d2, ioDisc).db
                        ELSE db1
             IN  [m      |-> [m EXCEPT !.discussions[discussion_id] = d2, !.db = db2],
                  result |-> MessageResult(current_persona, content,
                                           Len(d2.messages), PhaseValue(current_phase))]

\* a failure path that still counts the turn
OnFailure_CountsTurn(m, discussion_id, current_persona) ==
    [m      |-> [m EXCEPT !.discussions[discussion_id] = AdvanceTurn(@)],
     result |-> ErrorResult(current_persona, "CompletionFailed")]

\* lines 323-328: the completion raised
OnFailure(m, discussion_id, current_persona) ==
    [m |-> m, result |-> ErrorResult(current_persona, "CompletionFailed")]

LoadDiscussionFromDb(m, discussion_id, io) ==
    IF ~m.use_database
    THEN [m |-> m, ok |-> FALSE]
    ELSE LET db_discussion == LoadDiscussion(m.db, discussion_id, io)
         IN  IF ~db_discussion.found
             THEN [m |-> m, ok |-> FALSE]
             ELSE IF db_discussion.current_phase \notin PhaseTags
             THEN \* DiscussionPhase(str) raises ValueError, caught
                  [m |-> m, ok |-> FALSE]
             ELSE LET personas == db_discussion.personas_data
                      messages == [i \in DOMAIN db_discussion.messages |->
                                     LET msg_data == db_discussion.messages[i]
                                     IN  [persona   |-> msg_data.persona,
                                          role      |-> msg_data.role,
                                          content   |-> msg_data.content,
                                          timestamp |-> StrOf(msg_data.turn),
                                          phase     |-> msg_data.phase]]
                      tags     == DOMAIN db_discussion.phase_limits \cap PhaseTags
                      phase_limits ==
                          [ph \in {PhaseOfTag(t) : t \in tags} |->
                              db_discussion.phase_limits[PhaseValue(ph)]]
                      loaded   == [id            |-> discussion_id,
                                   topic         |-> db_discussion.topic,
                                   personas      |-> personas,
                                   messages      |-> messages,
                                   current_turn  |-> db_discussion.current_turn,
                                   current_phase |-> PhaseOfTag(db_discussion.current_phase),
                                   phase_turns   |-> db_discussion.phase_turns,
                                   phase_limits  |-> phase_limits,
                                   turn_order    |-> db_discussion.turn_order]
                  IN  [m  |-> [m EXCEPT !.discussions = (discussion_id :> loaded) @@ @],
                       ok |-> TRUE]

\* what the await of chat_completion comes back with
CompletionOk(content) == [ok |-> TRUE, content |-> content]
CompletionFailed      == [ok |-> FALSE, content |-> {}]
Completions           == {CompletionOk(c) : c \in Contents} \cup {CompletionFailed}

\* get_next_response; called tells whether chat_completion was awaited
GetNextResponse(m, discussion_id, completion, ioLoad, ioMsg, ioDisc) ==
    LET resolved == IF discussion_id \in DOMAIN m.discussions
                    THEN [m |-> m, ok |-> TRUE]
                    ELSE LoadDiscussionFromDb(m, discussion_id, ioLoad)
    IN  IF ~resolved.ok
        THEN [m |-> m, result |-> RaiseResult("ValueError"), called |-> FALSE]
        ELSE LET m1  == resolved.m
                 sel == GetCurrentPersona(m1.discussions[discussion_id])
             IN  IF sel.raised
                 THEN [m |-> m1, result |-> RaiseResult(sel.exc), called |-> FALSE]
                 ELSE IF completion.ok
                 THEN OnSuccess(m1, discussion_id, sel.persona, completion.content,
                                ioMsg, ioDisc) @@ [called |-> TRUE]
                 ELSE OnFailure(m1, discussion_id, sel.persona) @@ [called |-> TRUE]

\* the message_data get_next_response hands to save_message for one message
MessageData(message) ==
    [persona |-> message.persona, role |-> message.role,
     content |-> message.content, phase |-> message.phase,
     turn    |-> message.timestamp]

\* one save_message per message of the history, in order
RECURSIVE SaveMessages(_, _, _, _)
SaveMessages(db, discussion_id, messages, io) ==
    IF messages = <<>> THEN db
    ELSE SaveMessages(SaveMessage(db, discussion_id, MessageData(Head(messages)), io).db,
                      discussion_id, Tail(messages), io)

BoolResult(b) == [NoResult EXCEPT !.kind = IF b THEN "true" ELSE "false"]

ListResult(messages) == [NoResult EXCEPT !.kind = "list", !.messages = messages]

\* delete_discussion
DeleteDiscussion(m, discussion_id, io) ==
    LET kept      == [id \in DOMAIN m.discussions \ {discussion_id} |-> m.discussions[id]]
        db_result == IF m.use_database
                     THEN DbDeleteDiscussion(m.db, discussion_id, io)
                     ELSE [db |-> m.db, ret |-> TRUE]
    IN  [m      |-> [m EXCEPT !.discussions = kept, !.db = db_result.db],
         result |-> BoolResult(db_result.ret)]

\* a lookup that raises for an id it cannot resolve
GetDiscussionMessages_Raises(m, discussion_id, ioLoad) ==
    IF discussion_id \in DOMAIN m.discussions
    THEN [m |-> m, result |-> ListResult(m.discussions[discussion_id].messages)]
    ELSE [m |-> m, result |-> RaiseResult("ValueError")]

\* get_discussion_messages
GetDiscussionMessages(m, discussion_id, ioLoad) ==
    LET resolved == IF discussion_id \in DOMAIN m.discussions
                    THEN [m |-> m, ok |-> TRUE]
                    ELSE LoadDiscussionFromDb(m, discussion_id, ioLoad)
    IN  IF ~resolved.ok
        THEN [m |-> m, result |-> ListResult(<<>>)]
        ELSE LET messages == resolved.m.discussions[discussion_id].messages
             IN  [m      |-> resolved.m,
                  result |-> ListResult([i \in DOMAIN messages |->
                                [persona |-> messages[i].persona,
                                 role    |-> messages[i].role,
                                 content |-> messages[i].content,
                                 turn    |-> messages[i].timestamp,
                                 phase   |-> messages[i].phase]])]

----------------------------------------------------------------------------
(* Values the variables of a specification that is not running keep *)

NoCall == [op |-> "none", id |-> <<>>, completion |-> "none", content |-> {},
           io_msg |-> "none", result |-> NoResult]

TurnIdle == tdisc = [started |-> FALSE]

TwinIdle ==
    /\ twins = EmptyFun
    /\ twinLast = EmptyFun

ClientIdle ==
    /\ cc = [state |-> "none"]
    /\ reqs = <<>>

RateIdle == rl = [started |-> FALSE]

LifeIdle == life = [started |-> FALSE]

OverlapIdle == ov = [started |-> FALSE]

OrchIdle ==
    /\ mgr = NewManager(FALSE)
    /\ clock = 0
    /\ obs = EmptyFun
    /\ calls = 0
    /\ last = NoCall

----------------------------------------------------------------------------
(* Spec: one DiscussionManager; a call returns before the next is made *)

\* the persona lists the callers of a single manager pass to start
StartPersonaArgs == {NoneArg, <<CTO, CMO>>}

\* the outcomes a database write can have: none is made without a database
IoFor(m) == IF m.use_database THEN IoOutcomes ELSE {"none"}

\* the outcomes of the read a call makes for an id that is not resident
LoadsFor(m, discussion_id) ==
    IF discussion_id \in DOMAIN m.discussions THEN {"none"} ELSE IoFor(m)

\* the outcomes of the writes an advance makes: it writes after a completion only
WritesFor(m, completion) == IF completion.ok THEN IoFor(m) ELSE {"none"}

\* what a call leaves in last
CallRecord(discussion_id, completion, ioMsg, r) ==
    LET wrote == r.called /\ completion.ok
    IN  [op         |-> "advance",
         id         |-> discussion_id,
         completion |-> IF ~r.called THEN "none"
                        ELSE IF completion.ok THEN "ok" ELSE "fail",
         content    |-> IF wrote THEN completion.content ELSE {},
         io_msg     |-> IF wrote THEN ioMsg ELSE "none",
         result     |-> r.result]

Init ==
    /\ \E use_database \in BOOLEAN : mgr = NewManager(use_database)
    /\ clock = 0
    /\ obs = EmptyFun
    /\ calls = 0
    /\ last = NoCall
    /\ TurnIdle /\ TwinIdle /\ ClientIdle /\ RateIdle /\ LifeIdle /\ OverlapIdle

Start(topic, personasArg, io) ==
    /\ Cardinality(DOMAIN mgr.discussions) < MaxDiscussions
    /\ LET r == StartDiscussion(mgr, topic, personasArg, clock, io)
       IN  /\ mgr' = r.m
           /\ obs' = (r.result.id :> 0) @@ obs
           /\ last' = [NoCall EXCEPT !.op = "start", !.id = r.result.id,
                                     !.result = r.result]
    /\ UNCHANGED <<clock, calls, turnVars, twinVars, clientVars, rateVars, lifeVars, overlapVars>>

Advance(discussion_id, completion, ioMsg, ioDisc) ==
    /\ discussion_id \in DOMAIN mgr.discussions
    /\ obs[discussion_id] < MaxTurns
    /\ Len(mgr.discussions[discussion_id].messages) < MaxTurns
    /\ LET r == GetNextResponse(mgr, discussion_id, completion, "ok", ioMsg, ioDisc)
       IN  /\ mgr' = r.m
           /\ obs' = [obs EXCEPT ![discussion_id] =
                         @ + (IF r.result.kind = "message" THEN 1 ELSE 0)]
           /\ last' = CallRecord(discussion_id, completion, ioMsg, r)
    /\ UNCHANGED <<clock, calls, turnVars, twinVars, clientVars, rateVars, lifeVars, overlapVars>>

\* get_next_response for an id that is neither resident nor stored
AdvanceUnknown(ioLoad) ==
    /\ UnknownId \notin DOMAIN mgr.discussions
    /\ LET r == GetNextResponse(mgr, UnknownId, CompletionFailed, ioLoad, "ok", "ok")
       IN  /\ mgr' = r.m
           /\ last' = [NoCall EXCEPT !.op = "advance", !.id = UnknownId,
                                     !.result = r.result]
    /\ UNCHANGED <<obs, clock, calls, turnVars, twinVars, clientVars, rateVars, lifeVars, overlapVars>>

\* get_discussion_messages, for a resident id or one that cannot be resolved
GetMessages(discussion_id, ioLoad) ==
    /\ LET r == GetDiscussionMessages(mgr, discussion_id, ioLoad)
       IN  /\ mgr' = r.m
           /\ last' = [NoCall EXCEPT !.op = "get_messages", !.id = discussion_id,
                                     !.result = r.result]
    /\ UNCHANGED <<obs, clock, calls, turnVars, twinVars, clientVars, rateVars, lifeVars, overlapVars>>

Tick ==
    /\ clock < MaxClock
    /\ clock' = clock + 1
    /\ UNCHANGED <<mgr, obs, calls, last, turnVars, twinVars, clientVars, rateVars, lifeVars, overlapVars>>

Next ==
    \/ \E topic \in Topics, personasArg \in StartPersonaArgs, io \in IoFor(mgr) :
          Start(topic, personasArg, io)
    \/ \E discussion_id \in DOMAIN mgr.discussions, completion \in Completions :
          \E ioMsg \in WritesFor(mgr, completion), ioDisc \in WritesFor(mgr, completion) :
             Advance(discussion_id, completion, ioMsg, ioDisc)
    \/ \E ioLoad \in IoFor(mgr) : AdvanceUnknown(ioLoad)
    \/ \E discussion_id \in DOMAIN mgr.discussions \cup {UnknownId} :
          \E ioLoad \in LoadsFor(mgr, discussion_id) : GetMessages(discussion_id, ioLoad)
    \/ Tick

Spec == Init /\ [][Next]_vars

----------------------------------------------------------------------------
(* SpecScenario: the run of test_discussion: one discussion over the      *)
(* whole registry, then advance after advance against a completion        *)
(* service that always answers.                                           *)

ScenarioInit == Init

ScenarioStart(io) ==
    /\ DOMAIN mgr.discussions = {}
    /\ LET r == StartDiscussion(mgr, "Should we hire more developers?", NoneArg, clock, io)
       IN  /\ mgr' = r.m
           /\ obs' = (r.result.id :> 0) @@ obs
           /\ last' = [NoCall EXCEPT !.op = "start", !.id = r.result.id,
                                     !.result = r.result]
    /\ UNCHANGED <<clock, calls, turnVars, twinVars, clientVars, rateVars, lifeVars, overlapVars>>

ScenarioAdvance(discussion_id, content, ioMsg, ioDisc) ==
    /\ discussion_id \in DOMAIN mgr.discussions
    /\ calls < MaxCalls
    /\ LET r == GetNextResponse(mgr, discussion_id, CompletionOk(content),
                                "ok", ioMsg, ioDisc)
       IN  /\ mgr' = r.m
           /\ obs' = [obs EXCEPT ![discussion_id] =
                         @ + (IF r.result.kind = "message" THEN 1 ELSE 0)]
           /\ last' = CallRecord(discussion_id, CompletionOk(content), ioMsg, r)
    /\ calls' = calls + 1
    /\ UNCHANGED <<clock, turnVars, twinVars, clientVars, rateVars, lifeVars, overlapVars>>

ScenarioNext ==
    \/ \E io \in IoFor(mgr) : ScenarioStart(io)
    \/ \E discussion_id \in DOMAIN mgr.discussions, content \in Contents,
          ioMsg \in IoFor(mgr), ioDisc \in IoFor(mgr) :
          ScenarioAdvance(discussion_id, content, ioMsg, ioDisc)

SpecScenario == ScenarioInit /\ [][ScenarioNext]_vars

----------------------------------------------------------------------------
(* SpecTurn: _advance_turn applied turn after turn to a discussion whose  *)
(* phase limits are any positive integers up to MaxLimit.                 *)

TurnLimits(a, b, c) ==
    [p \in DiscussionPhase |->
        CASE p = OPENING -> a [] p = DEBATE -> b [] p = SYNTHESIS -> c]

TurnTotal == tdisc.d.phase_limits[OPENING] + tdisc.d.phase_limits[DEBATE]
             + tdisc.d.phase_limits[SYNTHESIS]

TurnInit ==
    /\ \E a \in 1..MaxLimit, b \in 1..MaxLimit, c \in 1..MaxLimit :
          tdisc = [started |-> TRUE,
                   n       |-> 0,
                   d       |-> [current_turn  |-> 0,
                                current_phase |-> OPENING,
                                phase_turns   |-> 0,
                                phase_limits  |-> TurnLimits(a, b, c)]]
    /\ OrchIdle /\ TwinIdle /\ ClientIdle /\ RateIdle /\ LifeIdle /\ OverlapIdle

\* the turn bookkeeping of one advance whose completion succeeded
TurnAdvance ==
    /\ tdisc.n < TurnTotal + ExtraTurns
    /\ tdisc' = [tdisc EXCEPT !.n = @ + 1, !.d = AdvanceTurn(@)]
    /\ UNCHANGED <<orchVars, twinVars, clientVars, rateVars, lifeVars, overlapVars>>

TurnNext == TurnAdvance

SpecTurn == TurnInit /\ [][TurnNext]_vars

----------------------------------------------------------------------------
(* SpecEquiv: three managers receive the same calls, the same clock and   *)
(* the same completion outcomes; they differ in their persistence only.   *)

Modes == {"absent", "failing", "working"}

TwinManager(mode) == NewManager(mode # "absent")

\* the outcome of every database write of a manager
TwinIo(mode) ==
    CASE mode = "absent"  -> "none"
      [] mode = "failing" -> "error"
      [] mode = "working" -> "ok"

TwinInit ==
    /\ twins = [mode \in Modes |-> TwinManager(mode)]
    /\ twinLast = [mode \in Modes |-> NoResult]
    /\ OrchIdle /\ TurnIdle /\ ClientIdle /\ RateIdle /\ LifeIdle /\ OverlapIdle

TwinStart(topic, personasArg) ==
    /\ \A mode \in Modes : Cardinality(DOMAIN twins[mode].discussions) < MaxDiscussions
    /\ LET r == [mode \in Modes |->
                    StartDiscussion(twins[mode], topic, personasArg, clock, TwinIo(mode))]
       IN  /\ twins' = [mode \in Modes |-> r[mode].m]
           /\ twinLast' = [mode \in Modes |-> r[mode].result]
    /\ UNCHANGED <<orchVars, turnVars, clientVars, rateVars, lifeVars, overlapVars>>

TwinAdvance(discussion_id, completion) ==
    /\ \A mode \in Modes :
          discussion_id \in DOMAIN twins[mode].discussions
             => Len(twins[mode].discussions[discussion_id].messages) < MaxTwinTurns
    /\ LET r == [mode \in Modes |->
                    GetNextResponse(twins[mode], discussion_id, completion,
                                    TwinIo(mode), TwinIo(mode), TwinIo(mode))]
       IN  /\ twins' = [mode \in Modes |-> r[mode].m]
           /\ twinLast' = [mode \in Modes |-> r[mode].result]
    /\ UNCHANGED <<orchVars, turnVars, clientVars, rateVars, lifeVars, overlapVars>>

TwinTick ==
    /\ clock < MaxClock
    /\ clock' = clock + 1
    /\ UNCHANGED <<mgr, obs, calls, last, twinVars, turnVars, clientVars, rateVars, lifeVars, overlapVars>>

TwinNext ==
    \/ \E topic \in Topics, personasArg \in PersonaArgs : TwinStart(topic, personasArg)
    \/ \E discussion_id \in UNION {DOMAIN twins[mode].discussions : mode \in Modes},
          completion \in Completions :
          TwinAdvance(discussion_id, completion)
    \/ TwinTick

SpecEquiv == TwinInit /\ [][TwinNext]_vars

----------------------------------------------------------------------------
(* openrouter.py: OpenRouterClient *)

MODEL_FALLBACKS ==
    [m \in {"openai/gpt-4", "anthropic/claude-3-sonnet", "google/gemini-pro"} |->
        CASE m = "openai/gpt-4" ->
                <<"openai/gpt-4-turbo", "openai/gpt-3.5-turbo">>
          [] m = "anthropic/claude-3-sonnet" ->
                <<"anthropic/claude-3-haiku", "openai/gpt-3.5-turbo">>
          [] m = "google/gemini-pro" ->
                <<"openai/gpt-3.5-turbo", "anthropic/claude-3-haiku">>]

\* max_retries of _make_request_with_retry
MaxRetries == 3

\* the models callers ask for: the personas' models and one without a chain
RequestedModels == {"openai/gpt-4", "anthropic/claude-3-sonnet", "google/gemini-pro",
                    "invalid/model"}

\* what one attempt meets: an HTTP status, or a transport error (httpx.RequestError)
Transport == [kind |-> "transport", code |-> 0]
Status(code) == [kind |-> "status", code |-> code]
StatusCodes == {200, 404, 429, 500}
Responses == {Status(code) : code \in StatusCodes} \cup {Transport}

\* response.raise_for_status() lets 2xx through
IsSuccess(resp) == resp.kind = "status" /\ 200 <= resp.code /\ resp.code < 300

\* a retry loop that treats no status as a client error
IsClientError_Never(resp) == FALSE

\* 400 <= status_code < 500 and status_code != 429
IsClientError(resp) ==
    resp.kind = "status" /\ 400 <= resp.code /\ resp.code < 500 /\ resp.code # 429

\* a retry loop that gives up one attempt early
IsLastAttempt_Early(attempt) == attempt = MaxRetries - 1

\* a retry loop that goes one attempt beyond max_retries
IsLastAttempt_Late(attempt) == attempt = MaxRetries + 1

\* attempt == max_retries
IsLastAttempt(attempt) == attempt = MaxRetries

\* what attempt number attempt (0-based) of the retry loop does with a response:
\* "return", "raise", or "retry" (sleep, then the next attempt)
RetryDecision(resp, attempt) ==
    IF IsSuccess(resp) THEN "return"
    ELSE IF resp.kind = "status"
    THEN IF IsClientError(resp) THEN "raise"
         ELSE IF IsLastAttempt(attempt) THEN "raise" ELSE "retry"
    ELSE IF IsLastAttempt(attempt) THEN "raise" ELSE "retry"

\* a model list that takes the chain whatever use_fallback says
ModelsToTry_IgnoresFlag(model, use_fallback) ==
    <<model>> \o (IF model \in DOMAIN MODEL_FALLBACKS
                  THEN MODEL_FALLBACKS[model] ELSE <<>>)

\* models_to_try of chat_completion
ModelsToTry(model, use_fallback) ==
    <<model>> \o (IF use_fallback /\ model \in DOMAIN MODEL_FALLBACKS
                  THEN MODEL_FALLBACKS[model] ELSE <<>>)

\* a loop that gives up after the primary model
IsLastModel_First(models_to_try, idx) == idx = 1

\* attempt_model == models_to_try[-1]
IsLastModel(models_to_try, idx) == models_to_try[idx] = models_to_try[Len(models_to_try)]

\* metadata that reports the requested model as the one that answered
Metadata_Requested(model, attempt_model) ==
    [requested_model |-> model,
     actual_model    |-> model,
     used_fallback   |-> FALSE]

\* result["_ai_boardroom_metadata"]
Metadata(model, attempt_model) ==
    [requested_model |-> model,
     actual_model    |-> attempt_model,
     used_fallback   |-> attempt_model # model]

\* the body the service answers with: it tells which model wrote it
ContentOf(attempt_model) == <<"content", attempt_model>>

NoMetadata == [requested_model |-> "", actual_model |-> "", used_fallback |-> FALSE]

\* last_error = None
NoError == [idx |-> 0, resp |-> [kind |-> "none", code |-> 0]]

\* the exception chat_completion catches for models_to_try[idx]: it carries
\* the detail of the response that ended that model's retry loop
ErrorOf(idx, resp) == [idx |-> idx, resp |-> resp]

\* nothing raised by chat_completion
NoFailure == [models |-> <<>>, last_error |-> NoError]

\* the final exception: ', '.join(models_to_try) and str(last_error)
AllFailed(models_to_try, last_error) ==
    [models |-> models_to_try, last_error |-> last_error]

----------------------------------------------------------------------------
(* SpecClient: chat_completion calls on one client, one at a time.        *)
(* cc.idx is the position in models_to_try of the model being requested,  *)
(* cc.attempt the attempt number of its retry loop, cc.hist the responses *)
(* that loop has met, cc.rq its state; reqs[i] counts the requests sent   *)
(* for models_to_try[i] and keeps how that model's request ended.         *)

ClientInit ==
    /\ cc = [state |-> "idle"]
    /\ reqs = <<>>
    /\ OrchIdle /\ TurnIdle /\ TwinIdle /\ RateIdle /\ LifeIdle /\ OverlapIdle

ClientCall(model, use_fallback) ==
    /\ cc.state \in {"idle", "returned", "raised"}
    /\ LET models_to_try == ModelsToTry(model, use_fallback)
       IN  /\ cc' = [state         |-> "running",
                     model         |-> model,
                     use_fallback  |-> use_fallback,
                     models_to_try |-> models_to_try,
                     idx           |-> 1,
                     attempt       |-> 0,
                     hist          |-> <<>>,
                     rq            |-> "running",
                     last_error    |-> NoError,
                     failure       |-> NoFailure,
                     content       |-> <<>>,
                     metadata      |-> NoMetadata]
           /\ reqs' = [i \in DOMAIN models_to_try |-> [n |-> 0, outcome |-> "none"]]
    /\ UNCHANGED <<orchVars, turnVars, twinVars, rateVars, lifeVars, overlapVars>>

\* one pass of the retry loop: send the request, then return, raise or sleep
Attempt(resp) ==
    /\ cc.state = "running"
    /\ cc.rq = "running"
    /\ LET attempt_model == cc.models_to_try[cc.idx]
           decision      == RetryDecision(resp, cc.attempt)
           hist1         == Append(cc.hist, resp)
       IN  /\ reqs' = [reqs EXCEPT ![cc.idx] =
                         [n       |-> @.n + 1,
                          outcome |-> CASE decision = "return" -> "ok"
                                        [] decision = "raise"  -> "failed"
                                        [] decision = "retry"  -> "none"]]
           /\ CASE decision = "return" ->
                     cc' = [cc EXCEPT !.state = "returned", !.rq = "ok", !.hist = hist1,
                                      !.content = ContentOf(attempt_model),
                                      !.metadata = Metadata(cc.model, attempt_model)]
                [] decision = "retry" ->
                     cc' = [cc EXCEPT !.attempt = @ + 1, !.hist = hist1]
                [] decision = "raise" ->
                     \* chat_completion's handler: remember the error; break on the
                     \* last model, else sleep before the next one
                     LET last_error == ErrorOf(cc.idx, resp)
                         is_last    == IsLastModel(cc.models_to_try, cc.idx)
                     IN  cc' = [cc EXCEPT !.rq = "failed", !.hist = hist1,
                                          !.last_error = last_error,
                                          !.state = IF is_last THEN "raised" ELSE "running",
                                          !.failure = IF is_last
                                                      THEN AllFailed(cc.models_to_try, last_error)
                                                      ELSE NoFailure]
    /\ UNCHANGED <<orchVars, turnVars, twinVars, rateVars, lifeVars, overlapVars>>

\* after the 0.5 s sleep the loop goes on with the next model
NextModel ==
    /\ cc.state = "running"
    /\ cc.rq = "failed"
    /\ cc' = [cc EXCEPT !.idx = @ + 1, !.attempt = 0, !.hist = <<>>, !.rq = "running"]
    /\ UNCHANGED <<reqs, orchVars, turnVars, twinVars, rateVars, lifeVars, overlapVars>>

ClientNext ==
    \/ \E model \in RequestedModels, use_fallback \in BOOLEAN : ClientCall(model, use_fallback)
    \/ \E resp \in Responses : Attempt(resp)
    \/ NextModel

SpecClient == ClientInit /\ [][ClientNext]_vars

\* every request returns or times out (httpx timeout=30.0) and every sleep
\* ends, so a loop that can take its next step does take it
SpecClientFair ==
    /\ ClientInit
    /\ [][ClientNext]_vars
    /\ WF_vars(\E resp \in Responses : Attempt(resp))
    /\ WF_vars(NextModel)

----------------------------------------------------------------------------
(* SpecRate: tasks that share one OpenRouterClient and go through          *)
(* _rate_limit before each request.  Time is counted in ticks.  A task is  *)
(* "idle" (outside _make_request_with_retry or in its backoff sleep),      *)
(* "sleeping" (suspended at the await of _rate_limit) or "requesting"      *)
(* (its request is on the wire).  rl.prev is the time of the last request  *)
(* dispatched, rl.gap the time between the last two.                       *)

Tasks == 1..NumTasks

\* self.min_request_interval = 1.0
min_request_interval == 1 * TicksPerSecond

\* no request dispatched yet / fewer than two
NoTime == -1

\* sleep_time of _rate_limit; 0 when the branch is not taken
SleepTime(current_time, last_request_time) ==
    LET time_since_last == current_time - last_request_time
    IN  IF time_since_last < min_request_interval
        THEN min_request_interval - time_since_last
        ELSE 0

\* self.last_request_time = time.time(), then the request goes out
Dispatch(r, t) ==
    [r EXCEPT !.last_request_time = r.now,
              !.tasks[t] = [pc |-> "requesting", wake |-> 0],
              !.gap = IF r.prev = NoTime THEN NoTime ELSE r.now - r.prev,
              !.prev = r.now]

RateInit ==
    /\ rl = [started           |-> TRUE,
             now               |-> min_request_interval,
             last_request_time |-> 0,
             tasks             |-> [t \in Tasks |-> [pc |-> "idle", wake |-> 0]],
             prev              |-> NoTime,
             gap               |-> NoTime]
    /\ OrchIdle /\ TurnIdle /\ TwinIdle /\ ClientIdle /\ LifeIdle /\ OverlapIdle

\* a task enters _rate_limit: it runs to the await, or through to the request
RateEnter(t) ==
    /\ rl.tasks[t].pc = "idle"
    /\ LET sleep_time == SleepTime(rl.now, rl.last_request_time)
       IN  rl' = IF sleep_time > 0
                 THEN [rl EXCEPT !.tasks[t] = [pc |-> "sleeping",
                                               wake |-> rl.now + sleep_time]]
                 ELSE Dispatch(rl, t)
    /\ UNCHANGED <<orchVars, turnVars, twinVars, clientVars, lifeVars, overlapVars>>

\* asyncio.sleep is over (on time or late): the task runs on to the request
RateWake(t) ==
    /\ rl.tasks[t].pc = "sleeping"
    /\ rl.now >= rl.tasks[t].wake
    /\ rl' = Dispatch(rl, t)
    /\ UNCHANGED <<orchVars, turnVars, twinVars, clientVars, lifeVars, overlapVars>>

\* the response (or the transport error) arrives
RateDone(t) ==
    /\ rl.tasks[t].pc = "requesting"
    /\ rl' = [rl EXCEPT !.tasks[t] = [pc |-> "idle", wake |-> 0]]
    /\ UNCHANGED <<orchVars, turnVars, twinVars, clientVars, lifeVars, overlapVars>>

RateTick ==
    /\ rl.now < min_request_interval + MaxTime
    /\ rl' = [rl EXCEPT !.now = @ + 1]
    /\ UNCHANGED <<orchVars, turnVars, twinVars, clientVars, lifeVars, overlapVars>>

RateNext ==
    \/ \E t \in Tasks : RateEnter(t)
    \/ \E t \in Tasks : RateWake(t)
    \/ \E t \in Tasks : RateDone(t)
    \/ RateTick

SpecRate == RateInit /\ [][RateNext]_vars

----------------------------------------------------------------------------
(* SpecLife: one DiscussionManager whose callers start, advance, read and  *)
(* delete discussions, by any id a start can return and by one it cannot.  *)
(* life.starts counts the start calls; life.deleted maps the id of every  *)
(* discussion a delete_discussion call removed from memory to what that    *)
(* call returned.                                                          *)

\* the ids callers pass: those of resident and of deleted discussions, and
\* one that no start has returned
LifeIds == DOMAIN mgr.discussions \cup DOMAIN life.deleted \cup {UnknownId}

\* the completion outcomes callers meet
LifeCompletions == {CompletionOk({"hello"}), CompletionFailed}

LifeInit ==
    /\ \E use_database \in BOOLEAN : mgr = NewManager(use_database)
    /\ clock = 0
    /\ obs = EmptyFun
    /\ calls = 0
    /\ last = NoCall
    /\ life = [started |-> TRUE, starts |-> 0, deleted |-> EmptyFun]
    /\ TurnIdle /\ TwinIdle /\ ClientIdle /\ RateIdle /\ OverlapIdle

LifeStart(topic, personasArg, io) ==
    /\ life.starts < MaxStarts
    /\ Cardinality(DOMAIN mgr.discussions) < MaxLive
    /\ LET r == StartDiscussion(mgr, topic, personasArg, clock, io)
       IN  /\ mgr' = r.m
           /\ last' = [NoCall EXCEPT !.op = "start", !.id = r.result.id,
                                     !.result = r.result]
    /\ life' = [life EXCEPT !.starts = @ + 1]
    /\ UNCHANGED <<obs, clock, calls, turnVars, twinVars, clientVars, rateVars, overlapVars>>

LifeAdvance(discussion_id, completion, ioLoad, ioMsg, ioDisc) ==
    /\ discussion_id \in DOMAIN mgr.discussions
          => Len(mgr.discussions[discussion_id].messages) < MaxLifeTurns
    /\ LET r == GetNextResponse(mgr, discussion_id, completion, ioLoad, ioMsg, ioDisc)
       IN  /\ mgr' = r.m
           /\ last' = CallRecord(discussion_id, completion, ioMsg, r)
    /\ UNCHANGED <<obs, clock, calls, turnVars, twinVars, clientVars, rateVars, lifeVars, overlapVars>>

LifeGetMessages(discussion_id, ioLoad) ==
    /\ LET r == GetDiscussionMessages(mgr, discussion_id, ioLoad)
       IN  /\ mgr' = r.m
           /\ last' = [NoCall EXCEPT !.op = "get_messages", !.id = discussion_id,
                                     !.result = r.result]
    /\ UNCHANGED <<obs, clock, calls, turnVars, twinVars, clientVars, rateVars, lifeVars, overlapVars>>

LifeDelete(discussion_id, io) ==
    /\ LET r == DeleteDiscussion(mgr, discussion_id, io)
       IN  /\ mgr' = r.m
           /\ last' = [NoCall EXCEPT !.op = "delete", !.id = discussion_id,
                                     !.result = r.result]
           /\ life' = IF discussion_id \in DOMAIN mgr.discussions
                      THEN [life EXCEPT !.deleted = (discussion_id :> r.result.kind) @@ @]
                      ELSE life
    /\ UNCHANGED <<obs, clock, calls, turnVars, twinVars, clientVars, rateVars, overlapVars>>

LifeTick ==
    /\ clock < MaxClock
    /\ clock' = clock + 1
    /\ UNCHANGED <<mgr, obs, calls, last, turnVars, twinVars, clientVars, rateVars, lifeVars, overlapVars>>

LifeNext ==
    \/ \E topic \in Topics, personasArg \in StartPersonaArgs, io \in IoFor(mgr) :
          LifeStart(topic, personasArg, io)
    \/ \E discussion_id \in LifeIds, completion \in LifeCompletions :
          \E ioLoad \in LoadsFor(mgr, discussion_id),
             ioMsg \in WritesFor(mgr, completion), ioDisc \in WritesFor(mgr, completion) :
             LifeAdvance(discussion_id, completion, ioLoad, ioMsg, ioDisc)
    \/ \E discussion_id \in LifeIds :
          \E ioLoad \in LoadsFor(mgr, discussion_id) :
             LifeGetMessages(discussion_id, ioLoad)
    \/ \E discussion_id \in LifeIds, io \in IoFor(mgr) : LifeDelete(discussion_id, io)
    \/ LifeTick

SpecLife == LifeInit /\ [][LifeNext]_vars

----------------------------------------------------------------------------
(* SpecOverlap: one DiscussionManager called by several tasks of one event *)
(* loop.  get_next_response runs up to its await of chat_completion        *)
(* (Invoke), is suspended there, and runs from the await to its return     *)
(* (Resume) when the completion is back; start_discussion and              *)
(* delete_discussion have no await and run in one step.                    *)
(* ov.flights is the bag of the calls suspended at the await: for each the *)
(* id it was given, the persona it selected, and what it read at           *)
(* invocation (turn0, order0, phase0); deleted tells whether a             *)
(* delete_discussion of its id has run since.  What a call returns is      *)
(* Invoke(..).result or Resume(..).result.                                 *)
(* SpecOverlapDelete adds delete_discussion and the clock to SpecOverlap.  *)

\* lines 258-263: resolve the id, select the persona, build the context
Invoke(m, discussion_id, ioLoad) ==
    LET resolved == IF discussion_id \in DOMAIN m.discussions
                    THEN [m |-> m, ok |-> TRUE]
                    ELSE LoadDiscussionFromDb(m, discussion_id, ioLoad)
    IN  IF ~resolved.ok
        THEN [m |-> m, result |-> RaiseResult("ValueError"), suspended |-> FALSE]
        ELSE LET d   == resolved.m.discussions[discussion_id]
                 sel == GetCurrentPersona(d)
             IN  IF sel.raised
                 THEN [m |-> resolved.m, result |-> RaiseResult(sel.exc),
                       suspended |-> FALSE]
                 ELSE [m         |-> resolved.m,
                       result    |-> NoResult,
                       suspended |-> TRUE,
                       flight    |-> [id      |-> discussion_id,
                                      persona |-> sel.persona,
                                      turn0   |-> d.current_turn,
                                      order0  |-> d.turn_order,
                                      phase0  |-> d.current_phase,
                                      deleted |-> FALSE]]

\* a resumption that selects the persona again from the state it finds
Resume_Reselects(m, flight, completion, ioMsg, ioDisc) ==
    IF ~completion.ok
    THEN OnFailure(m, flight.id, flight.persona)
    ELSE IF flight.id \notin DOMAIN m.discussions
    THEN [m |-> m, result |-> ErrorResult(flight.persona, "KeyError")]
    ELSE LET sel == GetCurrentPersona(m.discussions[flight.id])
         IN  IF sel.raised
             THEN [m |-> m, result |-> ErrorResult(flight.persona, sel.exc)]
             ELSE OnSuccess(m, flight.id, sel.persona, completion.content, ioMsg, ioDisc)

\* lines 265-328: from the return of the await to the return of the call
Resume(m, flight, completion, ioMsg, ioDisc) ==
    IF ~completion.ok
    THEN OnFailure(m, flight.id, flight.persona)
    ELSE IF flight.id \notin DOMAIN m.discussions
    THEN \* self.discussions[discussion_id] raises KeyError inside the try
         [m |-> m, result |-> ErrorResult(flight.persona, "KeyError")]
    ELSE OnSuccess(m, flight.id, flight.persona, completion.content, ioMsg, ioDisc)

\* the calls suspended now
Flights == BagToSet(ov.flights)

\* the ids callers pass: those of resident discussions and of suspended calls
OvIds == DOMAIN mgr.discussions \cup {f.id : f \in Flights}

OvInit ==
    /\ \E use_database \in BOOLEAN : mgr = NewManager(use_database)
    /\ clock = 0
    /\ obs = EmptyFun
    /\ calls = 0
    /\ last = NoCall
    /\ ov = [started |-> TRUE, starts |-> 0, flights |-> EmptyBag]
    /\ TurnIdle /\ TwinIdle /\ ClientIdle /\ RateIdle /\ LifeIdle

OvStart(topic, personasArg, io) ==
    /\ ov.starts < MaxOvStarts
    /\ Cardinality(DOMAIN mgr.discussions) < MaxDiscussions
    /\ mgr' = StartDiscussion(mgr, topic, personasArg, clock, io).m
    /\ ov' = [ov EXCEPT !.starts = @ + 1]
    /\ UNCHANGED <<obs, clock, calls, last, turnVars, twinVars, clientVars, rateVars, lifeVars>>

OvInvoke(discussion_id, ioLoad) ==
    /\ BagCardinality(ov.flights) < MaxInFlight
    /\ LET r == Invoke(mgr, discussion_id, ioLoad)
       IN  /\ mgr' = r.m
           /\ ov' = IF r.suspended
                    THEN [ov EXCEPT !.flights = @ (+) SetToBag({r.flight})]
                    ELSE ov
    /\ UNCHANGED <<obs, clock, calls, last, turnVars, twinVars, clientVars, rateVars, lifeVars>>

OvResume(flight, completion, ioMsg, ioDisc) ==
    /\ flight \in Flights
    /\ mgr' = Resume(mgr, flight, completion, ioMsg, ioDisc).m
    /\ ov' = [ov EXCEPT !.flights = @ (-) SetToBag({flight})]
    /\ UNCHANGED <<obs, clock, calls, last, turnVars, twinVars, clientVars, rateVars, lifeVars>>

\* a suspended call of the deleted id, as it is after the delete
AfterDelete(f, discussion_id) ==
    IF f.id = discussion_id THEN [f EXCEPT !.deleted = TRUE] ELSE f

OvDelete(discussion_id, io) ==
    /\ mgr' = DeleteDiscussion(mgr, discussion_id, io).m
    /\ ov' = [ov EXCEPT !.flights =
                 BagOfAll(LAMBDA f : AfterDelete(f, discussion_id), @)]
    /\ UNCHANGED <<obs, clock, calls, last, turnVars, twinVars, clientVars, rateVars, lifeVars>>

OvTick ==
    /\ clock < MaxClock
    /\ clock' = clock + 1
    /\ UNCHANGED <<mgr, obs, calls, last, turnVars, twinVars, clientVars, rateVars, lifeVars, overlapVars>>

OvNext ==
    \/ \E topic \in Topics, personasArg \in StartPersonaArgs, io \in IoFor(mgr) :
          OvStart(topic, personasArg, io)
    \/ \E discussion_id \in OvIds :
          \E ioLoad \in LoadsFor(mgr, discussion_id) : OvInvoke(discussion_id, ioLoad)
    \/ \E flight \in Flights, completion \in LifeCompletions :
          \E ioMsg \in WritesFor(mgr, completion), ioDisc \in WritesFor(mgr, completion) :
             OvResume(flight, completion, ioMsg, ioDisc)

SpecOverlap == OvInit /\ [][OvNext]_vars

OvDeleteNext ==
    \/ OvNext
    \/ \E discussion_id \in OvIds, io \in IoFor(mgr) : OvDelete(discussion_id, io)
    \/ OvTick

SpecOverlapDelete == OvInit /\ [][OvDeleteNext]_vars

----------------------------------------------------------------------------
(* Properties *)

\* C1: after start over the three default personas with limits 2/4/2 and 8
\* advance calls against a completion service that always answers, the
\* discussion holds exactly 8 messages whose phases are opening, opening,
\* debate x4, synthesis x2, and all 8 calls returned a message result.
C1_EightTurns ==
    \A id \in DOMAIN mgr.discussions :
       calls = 8 =>
          LET msgs == mgr.discussions[id].messages
          IN  /\ [i \in DOMAIN msgs |-> msgs[i].phase]
                   = <<"opening", "opening", "debate", "debate", "debate", "debate",
                       "synthesis", "synthesis">>
              /\ obs[id] = 8

\* C2: after k advance calls that returned a message result (and any number
\* of calls that did not), current_turn = k and the discussion has k messages.
C2_TurnCountsSuccesses ==
    \A id \in DOMAIN mgr.discussions :
       /\ mgr.discussions[id].current_turn = obs[id]
       /\ Len(mgr.discussions[id].messages) = obs[id]

C2_Witness ==
    \E id \in DOMAIN mgr.discussions :
       /\ obs[id] = 2
       /\ mgr.discussions[id].current_turn = 2
       /\ last.op = "advance" /\ last.result.kind # "message"

\* C3: for positive limits a/b/c, after exactly a+b+c successful advances the
\* discussion is in SYNTHESIS with phase_turns = c, so that the completion
\* check of test_discussion (SYNTHESIS and phase_turns >= limit) holds.
C3_CompleteAfterAllTurns ==
    (tdisc.started /\ tdisc.n = TurnTotal) =>
       /\ tdisc.d.current_phase = SYNTHESIS
       /\ tdisc.d.phase_turns = tdisc.d.phase_limits[SYNTHESIS]
       /\ tdisc.d.phase_turns >= tdisc.d.phase_limits[SYNTHESIS]

\* C4: current_phase changes from OPENING to DEBATE or from DEBATE to
\* SYNTHESIS only; it never goes back, never skips, never leaves SYNTHESIS.
C4_PhaseOrder ==
    [][ tdisc'.d.current_phase # tdisc.d.current_phase
          => <<tdisc.d.current_phase, tdisc'.d.current_phase>>
                \in {<<OPENING, DEBATE>>, <<DEBATE, SYNTHESIS>>} ]_vars

C4_Witness ==
    /\ tdisc.started
    /\ tdisc.d.current_phase = SYNTHESIS
    /\ tdisc.n > TurnTotal

\* C5: an advance whose completion failed leaves every discussion as it was,
\* returns an error result naming the persona that had been selected, and the
\* selection made on the state it leaves is that same persona in the same phase.
C5_FailureKeepsPosition ==
    [][ last'.result.kind = "error"
          => LET before == mgr.discussions[last'.id]
                 after  == mgr'.discussions[last'.id]
             IN  /\ mgr'.discussions = mgr.discussions
                 /\ ~GetCurrentPersona(before).raised
                 /\ last'.result.persona = GetCurrentPersona(before).persona.name
                 /\ last'.result.role = GetCurrentPersona(before).persona.role
                 /\ GetCurrentPersona(after) = GetCurrentPersona(before)
                 /\ after.current_phase = before.current_phase ]_vars

C5_Witness ==
    /\ last.op = "advance"
    /\ last.result.kind = "error"
    /\ last.completion = "fail"
    /\ mgr.discussions[last.id].current_turn = 1

\* C6: advance on a discussion that is resolved returns a message result or
\* an error result naming the persona, in every phase; nothing else escapes.
C6_TwoOutcomes ==
    (last.op = "advance" /\ last.id \in DOMAIN mgr.discussions)
       => last.result.kind \in {"message", "error"}

\* C7: whatever the persistence writes do, start returns an id that is
\* resident, and an advance whose completion succeeded returns the message
\* result and leaves the message and the turn/phase update in memory.
C7_PersistenceSwallowed ==
    [][ /\ (clock' = clock /\ last'.op = "start")
           => /\ last'.result.kind = "id"
              /\ last'.result.id \in DOMAIN mgr'.discussions
        /\ (clock' = clock /\ last'.op = "advance" /\ last'.completion = "ok")
           => LET before == mgr.discussions[last'.id]
                  after  == mgr'.discussions[last'.id]
                  n      == Len(before.messages) + 1
              IN  /\ last'.result.kind = "message"
                  /\ last'.result.turn = n
                  /\ last'.result.content = last'.content
                  /\ Len(after.messages) = n
                  /\ SubSeq(after.messages, 1, n - 1) = before.messages
                  /\ after.messages[n].content = last'.content
                  /\ after.messages[n].persona = last'.result.persona
                  /\ after.current_turn = before.current_turn + 1
                  /\ \/ /\ after.current_phase = before.current_phase
                        /\ after.phase_turns = before.phase_turns + 1
                        /\ after.phase_turns < after.phase_limits[after.current_phase]
                     \/ /\ before.phase_turns + 1 >= before.phase_limits[before.current_phase]
                        /\ after.phase_turns = 0 ]_vars

C7_Witness ==
    /\ mgr.use_database
    /\ last.op = "advance"
    /\ last.io_msg = "error"
    /\ last.result.kind = "message"
    /\ mgr.db = EmptyDb
    /\ Len(mgr.discussions[last.id].messages) = 2

\* C8: managers without a database, with a database whose writes all fail and
\* with one whose writes succeed hold the same discussions in memory and have
\* returned the same result after the same calls and completion outcomes.
C8_SameWithoutPersistence ==
    \A m1 \in DOMAIN twins, m2 \in DOMAIN twins :
       /\ twins[m1].discussions = twins[m2].discussions
       /\ twinLast[m1] = twinLast[m2]

C8_Witness ==
    /\ DOMAIN twins = Modes
    /\ twinLast["absent"].kind = "message"
    /\ twinLast["absent"].turn = 2
    /\ twins["working"].db.messages # <<>>
    /\ twins["failing"].db.messages = <<>>

\* what the claims call a retryable failure, a permanent failure and a success
RetryableClaim(resp) ==
    resp.kind = "transport" \/ resp.code = 429 \/ (500 <= resp.code /\ resp.code < 600)
PermanentClaim(resp) ==
    resp.kind = "status" /\ 400 <= resp.code /\ resp.code < 500 /\ resp.code # 429
SuccessClaim(resp) == resp.kind = "status" /\ resp.code = 200

\* C9: a request through the retry layer goes on until its first success, its
\* first 4xx other than 429, or its 4th attempt: all-500 means 4 requests and
\* failure, 404 means 1 request, n < 4 retryable failures then success means
\* n+1 requests and success.
C9_RetryBudget ==
    cc.state \in {"running", "returned", "raised"} =>
       LET h == cc.hist
           n == Len(h)
       IN  /\ n <= 4
           /\ reqs[cc.idx].n = n
           /\ \A i \in 1..(n - 1) : RetryableClaim(h[i])
           /\ cc.rq = "ok" <=> (n >= 1 /\ SuccessClaim(h[n]))
           /\ cc.rq = "failed" <=>
                 (n >= 1 /\ (PermanentClaim(h[n]) \/ (n = 4 /\ RetryableClaim(h[n]))))
           /\ cc.rq = "running" <=> (n < 4 /\ \A i \in 1..n : RetryableClaim(h[i]))
           /\ (n >= 1 /\ h[1] = Status(404)) => (n = 1 /\ cc.rq = "failed")
           /\ (cc.rq # "running" /\ \A i \in 1..n : h[i] = Status(500))
                 => (n = 4 /\ cc.rq = "failed")

C9_Witness ==
    /\ cc.state \in {"running", "raised"}
    /\ cc.rq = "failed"
    /\ cc.hist = <<Status(500), Status(500), Status(500), Status(500)>>

\* C10: a call that returns carries the content of the first model of
\* [primary, fallbacks...] that succeeded, requested_model = the primary,
\* actual_model = that model, and used_fallback exactly when the two differ;
\* gpt-4 and gpt-4-turbo failing and gpt-3.5-turbo answering is reported as
\* actual_model gpt-3.5-turbo with used_fallback true.
C10_FallbackMetadata ==
    cc.state = "returned" =>
       LET chain  == <<cc.model>> \o
                     (IF cc.use_fallback /\ cc.model \in DOMAIN MODEL_FALLBACKS
                      THEN MODEL_FALLBACKS[cc.model] ELSE <<>>)
           winner == CHOOSE i \in DOMAIN reqs : reqs[i].outcome = "ok"
       IN  /\ \E i \in DOMAIN reqs : reqs[i].outcome = "ok"
           /\ \A i \in DOMAIN reqs : i < winner => reqs[i].outcome = "failed"
           /\ \A i \in DOMAIN reqs : i > winner => reqs[i].n = 0
           /\ cc.metadata.requested_model = cc.model
           /\ cc.metadata.actual_model = chain[winner]
           /\ cc.content = <<"content", chain[winner]>>
           /\ cc.metadata.used_fallback <=> (cc.metadata.actual_model # cc.model)
           /\ (cc.model = "openai/gpt-4" /\ winner = 3)
                 => /\ cc.metadata.actual_model = "openai/gpt-3.5-turbo"
                    /\ cc.metadata.used_fallback

C10_Witness ==
    /\ cc.state = "returned"
    /\ cc.model = "openai/gpt-4"
    /\ Len(reqs) = 3
    /\ reqs[1] = [n |-> 4, outcome |-> "failed"]
    /\ reqs[2] = [n |-> 4, outcome |-> "failed"]
    /\ reqs[3].outcome = "ok"
    /\ cc.metadata = [requested_model |-> "openai/gpt-4",
                      actual_model    |-> "openai/gpt-3.5-turbo",
                      used_fallback   |-> TRUE]

\* [primary, fallbacks...] as the claims read it off the declared chains
DeclaredChain ==
    <<cc.model>> \o (IF cc.use_fallback /\ cc.model \in DOMAIN MODEL_FALLBACKS
                     THEN MODEL_FALLBACKS[cc.model] ELSE <<>>)

\* the response that ended the retry loop of the model being requested
LastResponse == cc.hist[Len(cc.hist)]

C13_AllModelsFailed ==
    /\ cc.state = "raised"
         => /\ cc.failure.models = DeclaredChain
            /\ DOMAIN reqs = DOMAIN cc.failure.models
            /\ \A i \in DOMAIN cc.failure.models :
                  reqs[i].n >= 1 /\ reqs[i].outcome = "failed"
            /\ cc.failure.last_error.idx = Len(cc.failure.models)
            /\ cc.failure.last_error.resp = LastResponse
            /\ cc.idx = Len(cc.failure.models)
    /\ (cc.state = "running" /\ cc.rq = "failed" /\ cc.idx = Len(DeclaredChain)) => FALSE
    /\ (cc.state \in {"running", "returned"}) => cc.failure = NoFailure

C13_Witness ==
    /\ cc.state = "raised"
    /\ cc.failure.models = <<"google/gemini-pro", "openai/gpt-3.5-turbo",
                             "anthropic/claude-3-haiku">>
    /\ cc.failure.last_error = [idx |-> 3, resp |-> Transport]
    /\ reqs[1].n = 4 /\ reqs[2].n = 1 /\ reqs[3].n = 4

\* C14: any two request attempts one client dispatches are at least
\* min_request_interval (1 s) apart, also when several tasks are suspended
\* in the rate limiter's sleep at the same time.
C14_RequestsSpaced ==
    rl.started => (rl.gap = NoTime \/ rl.gap >= min_request_interval)

\* C15: the id a start returns is not the id of a discussion that is resident
\* or stored at that time, whatever starts, deletes and clock ticks came
\* before; so no start replaces an existing discussion.
C15_UniqueIds ==
    [][ life'.starts # life.starts
          => /\ last'.result.id \notin DOMAIN mgr.discussions
             /\ last'.result.id \notin DOMAIN mgr.db.discussions
             /\ \A id \in DOMAIN mgr.discussions :
                   mgr'.discussions[id] = mgr.discussions[id] ]_vars

\* the calls that name an id which is neither resident nor loadable
UnknownIdCall ==
    /\ last' # last
    /\ last'.op \in {"advance", "get_messages"}
    /\ last'.id \notin DOMAIN mgr.discussions
    /\ ~LoadDiscussion(mgr.db, last'.id, "ok").found

\* C16 (as stated): advance and get_messages on an id that is neither
\* resident nor loadable both end in NotFound, without a completion request.
C16_BothNotFound ==
    (last.op \in {"advance", "get_messages"} /\ last.id \notin DOMAIN mgr.discussions)
       => /\ last.result = RaiseResult("ValueError")
          /\ last.completion = "none"

\* C16 (amended): on an id that is neither resident nor loadable, advance
\* ends in NotFound and get_messages returns the empty list; neither makes a
\* completion request, neither creates or changes any discussion or row.
C16_UnknownId ==
    [][ UnknownIdCall
          => /\ mgr' = mgr
             /\ last'.completion = "none"
             /\ last'.op = "advance" => last'.result = RaiseResult("ValueError")
             /\ last'.op = "get_messages" => last'.result = ListResult(<<>>) ]_vars

C16_Witness ==
    /\ last.op = "get_messages"
    /\ last.id = UnknownId
    /\ last.id \notin DOMAIN mgr.discussions
    /\ last.result = ListResult(<<>>)
    /\ mgr.use_database
    /\ mgr.db.messages # <<>>

\* C19: a delete_discussion(id) that returns True leaves no discussion, row
\* or message row of id and leaves the other discussions as they were; an
\* advance(id) made at any time after it ends in NotFound and a
\* get_messages(id) returns nothing of a discussion that is not there.
C19_DeletedIsGone ==
    [][ /\ (last' # last /\ last'.op = "delete" /\ last'.result.kind = "true")
           => /\ last'.id \notin DOMAIN mgr'.discussions
              /\ last'.id \notin DOMAIN mgr'.db.discussions
              /\ \A i \in DOMAIN mgr'.db.messages :
                    mgr'.db.messages[i].discussion_id # last'.id
              /\ DOMAIN mgr'.discussions = DOMAIN mgr.discussions \ {last'.id}
              /\ \A id \in DOMAIN mgr'.discussions :
                    mgr'.discussions[id] = mgr.discussions[id]
        /\ (last' # last /\ last'.op = "advance" /\ last'.id \in DOMAIN life.deleted
              /\ life.deleted[last'.id] = "true")
           => last'.result = RaiseResult("ValueError")
        /\ (last' # last /\ last'.op = "get_messages" /\ last'.id \in DOMAIN life.deleted
              /\ life.deleted[last'.id] = "true" /\ last'.id \notin DOMAIN mgr.discussions)
           => last'.result.messages = <<>> ]_vars

\* C17: saving a resident discussion (save_discussion, then one save_message
\* per message) and loading it by id into a manager that does not hold it
\* gives back the same topic, turn order, phase, phase turn count, phase
\* limits and message sequence.
C17_RoundTrip ==
    \A id \in DOMAIN mgr.discussions :
       LET d      == mgr.discussions[id]
           saved  == SaveMessages(SaveDiscussion(EmptyDb, d, "ok").db, id, d.messages, "ok")
           fresh  == [use_database |-> TRUE, discussions |-> EmptyFun, db |-> saved]
           loaded == LoadDiscussionFromDb(fresh, id, "ok")
       IN  /\ loaded.ok
           /\ LET l == loaded.m.discussions[id]
              IN  /\ l.topic = d.topic
                  /\ l.turn_order = d.turn_order
                  /\ l.current_phase = d.current_phase
                  /\ l.phase_turns = d.phase_turns
                  /\ l.phase_limits = d.phase_limits
                  /\ l.messages = d.messages

\* C18: save_discussion, given a discussion as the manager holds it, reports
\* success and stores current_phase as its string tag and phase_limits as a
\* map from string tags to integers.
C18_SaveStoresTags ==
    \A id \in DOMAIN mgr.discussions :
       LET d == mgr.discussions[id]
           r == SaveDiscussion(EmptyDb, d, "ok")
       IN  /\ r.ret = "True"
           /\ id \in DOMAIN r.db.discussions
           /\ r.db.discussions[id].current_phase = PhaseValue(d.current_phase)
           /\ LET limits == JsonLoads(r.db.discussions[id].phase_limits)
              IN  /\ DOMAIN limits = {PhaseValue(ph) : ph \in DOMAIN d.phase_limits}
                  /\ \A ph \in DOMAIN d.phase_limits :
                        limits[PhaseValue(ph)] = d.phase_limits[ph]

RolesOf(personas) == [i \in DOMAIN personas |-> personas[i].role]

\* C22: start(topic, personas) leaves a discussion in OPENING with
\* current_turn 0, phase_turns 0, no messages and the role sequence of the
\* given personas (of the registry when none are given) as turn_order; the id
\* it returned is resolved by advance and get_messages right away, whether
\* the write to the database succeeded or not.
C22_StartPostconditions ==
    \A topic \in Topics, personasArg \in StartPersonaArgs, io \in IoFor(mgr) :
       LET r  == StartDiscussion(mgr, topic, personasArg, clock, io)
           id == r.result.id
           given == IF personasArg = NoneArg THEN <<CEO, CTO, CMO>> ELSE personasArg
       IN  /\ r.result.kind = "id"
           /\ id \in DOMAIN r.m.discussions
           /\ LET d == r.m.discussions[id]
              IN  /\ d.current_phase = OPENING
                  /\ d.current_turn = 0
                  /\ d.phase_turns = 0
                  /\ d.messages = <<>>
                  /\ d.topic = topic
                  /\ d.turn_order = RolesOf(given)
           /\ \A completion \in Completions :
                 LET a == GetNextResponse(r.m, id, completion, "error", "error", "error")
                 IN  /\ a.result.kind \in {"message", "error"}
                     /\ a.called
                     /\ a.result.role = given[1].role
           /\ GetDiscussionMessages(r.m, id, "error")
                 = [m |-> r.m, result |-> ListResult(<<>>)]

C22_Witness ==
    /\ last.op = "start"
    /\ mgr.use_database
    /\ mgr.db.discussions = EmptyFun
    /\ last.id \in DOMAIN mgr.discussions
    /\ mgr.discussions[last.id].turn_order = <<"CTO", "CMO">>
    /\ mgr.discussions[last.id].messages = <<>>
    /\ mgr.discussions[last.id].current_phase = OPENING

\* C23: in OPENING and SYNTHESIS the persona selected has the role
\* turn_order[current_turn mod len(turn_order)], current_turn being the
\* discussion-wide counter; so, with one advance at a time, the message with
\* turn number n recorded in one of these phases is by the persona with role
\* turn_order[(n-1) mod len(turn_order)].
C23_RoundRobin ==
    \A id \in DOMAIN mgr.discussions :
       LET d   == mgr.discussions[id]
           len == Len(d.turn_order)
       IN  /\ \A n \in 0..MaxTurns, ph \in {OPENING, SYNTHESIS} :
                 LET sel == GetCurrentPersona([d EXCEPT !.current_turn = n,
                                                        !.current_phase = ph])
                 IN  /\ ~sel.raised
                     /\ sel.persona.role = d.turn_order[(n % len) + 1]
                     /\ sel.persona \in {d.personas[i] : i \in DOMAIN d.personas}
           /\ \A n \in DOMAIN d.messages :
                 d.messages[n].phase \in {"opening", "synthesis"}
                    => /\ d.messages[n].role = d.turn_order[((n - 1) % len) + 1]
                       /\ \E i \in DOMAIN d.personas :
                             /\ d.personas[i].role = d.messages[n].role
                             /\ d.personas[i].name = d.messages[n].persona

C23_Witness ==
    \E id \in DOMAIN mgr.discussions :
       /\ mgr.discussions[id].turn_order = <<"CEO", "CTO", "CMO">>
       /\ Len(mgr.discussions[id].messages) = 2
       /\ mgr.discussions[id].messages[1].role = "CEO"
       /\ mgr.discussions[id].messages[2].role = "CTO"
       /\ mgr.discussions[id].messages[2].phase = "opening"

\* the indices of the personas whose score is maximal
BestScored(d) ==
    {i \in DOMAIN d.personas :
        \A j \in DOMAIN d.personas :
           PersonaScore(d, d.personas[j]) <= PersonaScore(d, d.personas[i])}

\* C24: in DEBATE with a non-empty history the selection returns the first
\* persona, in the discussion's persona order, whose score is maximal.
C24_DebateSelection ==
    \A id \in DOMAIN mgr.discussions :
       LET d == mgr.discussions[id]
       IN  (d.current_phase = DEBATE /\ d.messages # <<>>)
              => /\ ~GetCurrentPersona(d).raised
                 /\ GetCurrentPersona(d).persona = d.personas[MinOf(BestScored(d))]

\* C25: with the default personas and limits and one advance at a time, no
\* DEBATE message is by the author of either of the two messages before it,
\* and after the 8 calls the speakers are CEO, CTO, CMO, CEO, CTO, CMO, CEO,
\* CTO whatever the contents were.
C25_SpeakerSequence ==
    \A id \in DOMAIN mgr.discussions :
       LET msgs == mgr.discussions[id].messages
       IN  /\ \A i \in DOMAIN msgs :
                 msgs[i].phase = "debate"
                    => \A j \in {i - 1, i - 2} \cap DOMAIN msgs :
                          msgs[j].persona # msgs[i].persona
           /\ calls = 8
                 => [i \in DOMAIN msgs |-> msgs[i].role]
                      = <<"CEO", "CTO", "CMO", "CEO", "CTO", "CMO", "CEO", "CTO">>

\* the rows of the messages table that belong to a discussion
RowsOf(id) == SelectRows(mgr.db.messages, id)

\* C28: once an advance has returned a message, the stored copy agrees with
\* itself whichever writes failed: the stored current_turn is the number of
\* stored message rows and the rows carry the turn numbers 1..current_turn,
\* each once.
C28_StoredConsistent ==
    (mgr.use_database /\ last.op = "advance" /\ last.result.kind = "message")
       => /\ last.id \in DOMAIN mgr.db.discussions
          /\ mgr.db.discussions[last.id].current_turn = Len(RowsOf(last.id))
          /\ \A i \in DOMAIN RowsOf(last.id) : RowsOf(last.id)[i].turn_number = i

\* the number of requests the current call has sent so far
RECURSIVE RequestsSent(_)
RequestsSent(i) == IF i = 0 THEN 0 ELSE reqs[i].n + RequestsSent(i - 1)

\* C30: every chat_completion call ends, by returning or by raising its final
\* failure, after at most (max_retries + 1) * (1 + number of fallback models)
\* requests, whatever the service answers: at most 12 for the model of a
\* default persona with fallback on, at most 4 for a model without a chain.
C30_Terminates ==
    /\ [](cc.state \in {"running", "returned", "raised"}
            => /\ RequestsSent(Len(reqs)) <= (MaxRetries + 1) * Len(DeclaredChain)
               /\ Len(reqs) = Len(DeclaredChain)
               /\ (cc.use_fallback /\ cc.model \in {CEO.model, CTO.model, CMO.model})
                     => RequestsSent(Len(reqs)) <= 12
               /\ (~cc.use_fallback \/ cc.model \notin DOMAIN MODEL_FALLBACKS)
                     => RequestsSent(Len(reqs)) <= 4)
    /\ (cc.state = "running") ~> (cc.state \in {"returned", "raised"})

C30_Witness ==
    /\ cc.state = "raised"
    /\ cc.model = CEO.model
    /\ RequestsSent(Len(reqs)) = 12
    /\ cc.failure.last_error = [idx |-> 3, resp |-> Status(500)]

\* the inputs of the resumptions a step can be: none unless a suspended call
\* has gone
ResumeInputs ==
    IF BagCardinality(ov'.flights) >= BagCardinality(ov.flights) THEN {}
    ELSE {x \in Flights \X LifeCompletions \X (IoOutcomes \cup {"none"})
                         \X (IoOutcomes \cup {"none"}) :
             /\ x[3] \in WritesFor(mgr, x[2])
             /\ x[4] \in WritesFor(mgr, x[2])
             /\ CopiesIn(x[1], ov'.flights) < CopiesIn(x[1], ov.flights)}

\* C21: the history is append-only.  No step removes, reorders or changes a
\* message; a step adds at most one message, at the end, and an advance that
\* returns a message result adds exactly one; message i carries turn number
\* i, and the phase the discussion was in when the message was appended.
C21_AppendOnly ==
    /\ [](ov.started =>
            \A id \in DOMAIN mgr.discussions :
               \A i \in DOMAIN mgr.discussions[id].messages :
                  /\ IntOf(mgr.discussions[id].messages[i].timestamp) = i
                  /\ mgr.discussions[id].messages[i].timestamp = StrOf(i))
    /\ [][/\ \A id \in DOMAIN mgr.discussions \cap DOMAIN mgr'.discussions :
               LET old == mgr.discussions[id].messages
                   new == mgr'.discussions[id].messages
               IN  /\ Len(new) \in {Len(old), Len(old) + 1}
                   /\ SubSeq(new, 1, Len(old)) = old
                   /\ Len(new) = Len(old) + 1
                         => new[Len(new)].phase
                              = PhaseValue(mgr.discussions[id].current_phase)
          /\ \A x \in ResumeInputs :
               (OvResume(x[1], x[2], x[3], x[4]) /\ x[1].id \in DOMAIN mgr.discussions)
                  => LET r   == Resume(mgr, x[1], x[2], x[3], x[4])
                         old == mgr.discussions[x[1].id].messages
                         new == mgr'.discussions[x[1].id].messages
                     IN  /\ r.result.kind = "message"
                            => Len(new) = Len(old) + 1 /\ r.result.turn = Len(new)
                         /\ r.result.kind # "message" => new = old
       ]_vars

C21_Witness ==
    /\ ov.started
    /\ \E id \in DOMAIN mgr.discussions :
          LET d == mgr.discussions[id]
          IN  /\ Len(d.messages) = 3
              /\ d.messages[2].phase = "opening"
              /\ d.messages[3].phase = "debate"
              /\ d.messages[3].timestamp = StrOf(3)

\* C26: also when advance calls on one discussion overlap, every message
\* recorded in OPENING or SYNTHESIS with turn number n is by the persona with
\* role turn_order[(n-1) mod len(turn_order)], and no two consecutive OPENING
\* messages have the same author when there are at least two personas.
C26_RoundRobinUnderOverlap ==
    ov.started =>
       \A id \in DOMAIN mgr.discussions :
          LET d   == mgr.discussions[id]
              len == Len(d.turn_order)
          IN  \A n \in DOMAIN d.messages :
                 /\ d.messages[n].phase \in {"opening", "synthesis"}
                       => d.messages[n].role = d.turn_order[((n - 1) % len) + 1]
                 /\ (n > 1 /\ d.messages[n].phase = "opening" /\ Len(d.personas) >= 2)
                       => d.messages[n].persona # d.messages[n - 1].persona

\* C26 (amended): the message an advance appends is by the persona the call
\* selected at its invocation: invoked in OPENING or SYNTHESIS, the persona
\* with role T[c mod len(T)], T and c being turn_order and current_turn as
\* read at invocation.  When current_turn is still c at the resumption the
\* message gets turn number n = c + 1 and that role is T[(n-1) mod len(T)].
C26_AuthorSelectedAtInvocation ==
    [][\A x \in ResumeInputs :
          (OvResume(x[1], x[2], x[3], x[4])
             /\ Resume(mgr, x[1], x[2], x[3], x[4]).result.kind = "message")
             => LET f   == x[1]
                    d   == mgr.discussions[f.id]
                    new == mgr'.discussions[f.id].messages
                    n   == Len(new)
                    len == Len(f.order0)
                IN  /\ new[n].persona = f.persona.name
                    /\ new[n].role = f.persona.role
                    /\ Resume(mgr, x[1], x[2], x[3], x[4]).result.persona = f.persona.name
                    /\ f.phase0 \in {OPENING, SYNTHESIS}
                          => new[n].role = f.order0[(f.turn0 % len) + 1]
                    /\ (f.phase0 \in {OPENING, SYNTHESIS} /\ d.current_turn = f.turn0)
                          => /\ n = f.turn0 + 1
                             /\ new[n].role = f.order0[((n - 1) % len) + 1]
      ]_vars

C26_Witness ==
    /\ ov.started
    /\ \E id \in DOMAIN mgr.discussions :
          LET d == mgr.discussions[id]
          IN  /\ Len(d.messages) >= 2
              /\ d.messages[1].persona = d.messages[2].persona
              /\ d.messages[2].phase = "opening"
              /\ d.messages[2].role = d.turn_order[1]

C29_NoResurrection ==
    [][\A x \in ResumeInputs :
          (OvResume(x[1], x[2], x[3], x[4]) /\ x[1].deleted)
             => /\ Resume(mgr, x[1], x[2], x[3], x[4]).result.kind = "error"
                /\ x[1].id \notin DOMAIN mgr'.discussions
                /\ mgr'.db = mgr.db
      ]_vars

====
